---- MODULE Spec2Model ----
(***************************************************************************)
(* A model of the f5project package: F5ProjectConfig (from_env), the       *)
(* F5Project runtime (setup, the finlab and fugle steps, the session       *)
(* getter), the single GCF endpoint (registration and invocation) and the  *)
(* synchronisation of the configuration to GitHub secrets.                 *)
(*                                                                         *)
(* Python values are records [t, s, items]: t is the type, s the text of a *)
(* scalar (a sequence of one-character strings), items the elements of a   *)
(* list or tuple, or the key/value entries of a dict.  An optional value   *)
(* (X | None on the Python side, outside of the values above) is the       *)
(* sequence <<>> for None and <<x>> for x.                                 *)
(***************************************************************************)
EXTENDS Integers, Sequences, FiniteSets, TLC

VARIABLES
    config,              \* F5Project.config: field name -> Python value
    _gcf_endpoint,       \* F5Project._gcf_endpoint: <<>> or <<wrapper>>
    _fugle_config_path,  \* F5Project._fugle_config_path: <<>> or <<path>>
    _fugle_account,      \* F5Project._fugle_account: <<>> or <<FugleAccount>>
    logins,              \* number of FugleAccount objects constructed so far
    finlab_storage,      \* finlab.data storage (process-wide): <<>> or <<path>>
    finlab_token,        \* the token finlab is logged in with: <<>> or <<token>>
    keyring_key,         \* the key of the installed CryptFileKeyring: <<>> or <<key>>
    stdout,              \* sys.stdout: "orig" or "devnull" (the closed null sink)
    dotenv_file,         \* <tmp>/temp.env: a sequence of bindings [k, v]
    environ,             \* os.environ: variable name -> <<>> (unset) or <<text>>
    pc,                  \* 0: no call of setup is running; i: setup is at step i
    setup_dir,           \* the data_dir argument of the running setup call
    last                 \* what the last call did and returned

vars == <<config, _gcf_endpoint, _fugle_config_path, _fugle_account, logins,
          finlab_storage, finlab_token, keyring_key, stdout, dotenv_file,
          environ, pc, setup_dir, last>>

\* ------------------------------------------------------------------ bounds

\* FugleAccount objects constructed in one run.
MaxLogins == 2

\* Length of the strings the environment round trip is tried on.
MaxStrLen == 1

\* ----------------------------------------------------------- Python values

None == <<>>

Some(x) == <<x>>

PyNone == [t |-> "none", s |-> <<>>, items |-> <<>>]

PyBool(b) == [t |-> "bool", s |-> IF b THEN <<"1">> ELSE <<>>, items |-> <<>>]

PyStr(text) == [t |-> "str", s |-> text, items |-> <<>>]

Digits == <<"0", "1", "2", "3", "4", "5", "6", "7", "8", "9">>

RECURSIVE IntText(_)
\* str(n) for n >= 0
IntText(n) ==
    IF n < 10 THEN <<Digits[n + 1]>>
    ELSE IntText(n \div 10) \o <<Digits[(n % 10) + 1]>>

PyInt(n) == [t |-> "int", s |-> IntText(n), items |-> <<>>]

PyList(xs) == [t |-> "list", s |-> <<>>, items |-> xs]

PyTuple(xs) == [t |-> "tuple", s |-> <<>>, items |-> xs]

PyEntry(k, v) == [t |-> "entry", s |-> <<>>, items |-> <<k, v>>]

\* A dict is its entries in insertion order.
PyDict(entries) == [t |-> "dict", s |-> <<>>, items |-> entries]

\* bool(v): None, False, 0, "", [], () and {} are false.
Truthy(v) ==
    CASE v.t = "none" -> FALSE
      [] v.t = "bool" -> v.s # <<>>
      [] v.t = "int" -> v.s # <<"0">>
      [] v.t = "str" -> v.s # <<>>
      [] OTHER -> v.items # <<>>

\* d[key] is defined
HasKey(d, key) == \E i \in 1..Len(d.items) : d.items[i].items[1] = key

RECURSIVE SetKey(_, _, _, _)
SetKey(entries, i, key, value) ==
    IF i > Len(entries) THEN Append(entries, PyEntry(key, value))
    ELSE IF entries[i].items[1] = key
         THEN [entries EXCEPT ![i] = PyEntry(key, value)]
         ELSE SetKey(entries, i + 1, key, value)

\* d[key] = value: replaces the value of an existing key in place, else appends.
DictSet(d, key, value) == PyDict(SetKey(d.items, 1, key, value))

\* ------------------------------------------------------------------- JSON

Txt(str) ==
    CASE str = "null" -> <<"n", "u", "l", "l">>
      [] str = "true" -> <<"t", "r", "u", "e">>
      [] str = "false" -> <<"f", "a", "l", "s", "e">>

RECURSIVE EscapeText(_)
\* The body of a JSON string: a quote and a backslash get a backslash before them.
EscapeText(text) ==
    IF text = <<>> THEN <<>>
    ELSE (IF Head(text) \in {"\"", "\\"} THEN <<"\\", Head(text)>> ELSE <<Head(text)>>)
         \o EscapeText(Tail(text))

Quoted(text) == <<"\"">> \o EscapeText(text) \o <<"\"">>

RECURSIVE json_dumps(_)
RECURSIVE DumpItems(_, _)

\* A dict key: str as it is; int, bool and None keys become their JSON text, quoted.
DumpKey(k) ==
    CASE k.t = "str" -> Quoted(k.s)
      [] k.t = "int" -> Quoted(k.s)
      [] k.t = "bool" -> Quoted(IF k.s # <<>> THEN Txt("true") ELSE Txt("false"))
      [] k.t = "none" -> Quoted(Txt("null"))

DumpItems(xs, isDict) ==
    IF xs = <<>> THEN <<>>
    ELSE (IF isDict
          THEN DumpKey(Head(xs).items[1]) \o <<":", " ">> \o json_dumps(Head(xs).items[2])
          ELSE json_dumps(Head(xs)))
         \o (IF Len(xs) > 1 THEN <<",", " ">> ELSE <<>>)
         \o DumpItems(Tail(xs), isDict)

\* json.dumps(v), with the default separators; a tuple is written as an array.
json_dumps(v) ==
    CASE v.t = "none" -> Txt("null")
      [] v.t = "bool" -> IF v.s # <<>> THEN Txt("true") ELSE Txt("false")
      [] v.t = "int" -> v.s
      [] v.t = "str" -> Quoted(v.s)
      [] v.t \in {"list", "tuple"} -> <<"[">> \o DumpItems(v.items, FALSE) \o <<"]">>
      [] v.t = "dict" -> <<"{">> \o DumpItems(v.items, TRUE) \o <<"}">>

\* The parser's result: ok, the value read and the position after it.
Parsed(v, i) == [ok |-> TRUE, v |-> v, i |-> i]

ParseError == [ok |-> FALSE, v |-> PyNone, i |-> 0]

StartsWith(text, i, word) ==
    /\ i + Len(word) - 1 <= Len(text)
    /\ \A j \in 1..Len(word) : text[i + j - 1] = word[j]

RECURSIVE SkipWs(_, _)
SkipWs(text, i) ==
    IF i <= Len(text) /\ text[i] = " " THEN SkipWs(text, i + 1) ELSE i

RECURSIVE ParseStringBody(_, _, _)
\* From text[i], after the opening quote, to the closing quote; acc is what was read.
ParseStringBody(text, i, acc) ==
    IF i > Len(text) THEN ParseError
    ELSE IF text[i] = "\"" THEN Parsed(PyStr(acc), i + 1)
    ELSE IF text[i] = "\\"
         THEN IF i + 1 <= Len(text) /\ text[i + 1] \in {"\"", "\\"}
              THEN ParseStringBody(text, i + 2, Append(acc, text[i + 1]))
              ELSE ParseError
    ELSE ParseStringBody(text, i + 1, Append(acc, text[i]))

IsDigit(c) == \E d \in 1..10 : Digits[d] = c

RECURSIVE ParseDigits(_, _, _)
ParseDigits(text, i, acc) ==
    IF i <= Len(text) /\ IsDigit(text[i])
    THEN ParseDigits(text, i + 1, Append(acc, text[i]))
    ELSE Parsed([t |-> "int", s |-> acc, items |-> <<>>], i)

RECURSIVE ParseValue(_, _)
RECURSIVE ParseElements(_, _, _)
RECURSIVE ParseMembers(_, _, _)

\* The elements of an array after "[" or after a comma; acc is what was read.
ParseElements(text, i, acc) ==
    LET r == ParseValue(text, SkipWs(text, i))
        j == SkipWs(text, r.i)
    IN  IF ~r.ok \/ j > Len(text) THEN ParseError
        ELSE IF text[j] = "," THEN ParseElements(text, j + 1, Append(acc, r.v))
        ELSE IF text[j] = "]" THEN Parsed(PyList(Append(acc, r.v)), j + 1)
        ELSE ParseError

\* The members of an object after "{" or after a comma; a repeated key keeps
\* its first place and takes the last value, as a Python dict does.
ParseMembers(text, i, acc) ==
    LET k0 == SkipWs(text, i)
        k == IF k0 <= Len(text) /\ text[k0] = "\""
             THEN ParseStringBody(text, k0 + 1, <<>>) ELSE ParseError
        c == SkipWs(text, k.i)
        r == IF k.ok /\ c <= Len(text) /\ text[c] = ":"
             THEN ParseValue(text, SkipWs(text, c + 1)) ELSE ParseError
        j == SkipWs(text, r.i)
    IN  IF ~r.ok \/ j > Len(text) THEN ParseError
        ELSE IF text[j] = "," THEN ParseMembers(text, j + 1, DictSet(acc, k.v, r.v))
        ELSE IF text[j] = "}" THEN Parsed(DictSet(acc, k.v, r.v), j + 1)
        ELSE ParseError

ParseValue(text, i) ==
    IF i > Len(text) THEN ParseError
    ELSE IF StartsWith(text, i, Txt("null")) THEN Parsed(PyNone, i + 4)
    ELSE IF StartsWith(text, i, Txt("true")) THEN Parsed(PyBool(TRUE), i + 4)
    ELSE IF StartsWith(text, i, Txt("false")) THEN Parsed(PyBool(FALSE), i + 5)
    ELSE IF IsDigit(text[i]) THEN ParseDigits(text, i, <<>>)
    ELSE IF text[i] = "\"" THEN ParseStringBody(text, i + 1, <<>>)
    ELSE IF text[i] = "["
         THEN LET j == SkipWs(text, i + 1)
              IN  IF j <= Len(text) /\ text[j] = "]" THEN Parsed(PyList(<<>>), j + 1)
                  ELSE ParseElements(text, i + 1, <<>>)
    ELSE IF text[i] = "{"
         THEN LET j == SkipWs(text, i + 1)
              IN  IF j <= Len(text) /\ text[j] = "}" THEN Parsed(PyDict(<<>>), j + 1)
                  ELSE ParseMembers(text, i + 1, PyDict(<<>>))
    ELSE ParseError

\* json.loads(text): <<value>>, or <<>> where json.loads raises JSONDecodeError.
json_loads(text) ==
    LET r == ParseValue(text, SkipWs(text, 1))
    IN  IF r.ok /\ SkipWs(text, r.i) = Len(text) + 1 THEN Some(r.v) ELSE None

\* ---------------------------------------------------------- F5ProjectConfig

all_field_names ==
    <<"finlab_api_token", "fugle_account", "fugle_password", "fugle_cert",
      "fugle_cert_password", "fugle_api_entry", "fugle_api_key", "fugle_api_secret",
      "fugle_market_api_key", "gcf_service_account", "repo_synced">>

BINARY_FILE_FIELDS == {"fugle_cert"}

JSON_FIELDS == {"gcf_service_account", "repo_synced"}

\* f.upper()
Upper(f) ==
    CASE f = "finlab_api_token" -> "FINLAB_API_TOKEN"
      [] f = "fugle_account" -> "FUGLE_ACCOUNT"
      [] f = "fugle_password" -> "FUGLE_PASSWORD"
      [] f = "fugle_cert" -> "FUGLE_CERT"
      [] f = "fugle_cert_password" -> "FUGLE_CERT_PASSWORD"
      [] f = "fugle_api_entry" -> "FUGLE_API_ENTRY"
      [] f = "fugle_api_key" -> "FUGLE_API_KEY"
      [] f = "fugle_api_secret" -> "FUGLE_API_SECRET"
      [] f = "fugle_market_api_key" -> "FUGLE_MARKET_API_KEY"
      [] f = "gcf_service_account" -> "GCF_SERVICE_ACCOUNT"
      [] f = "repo_synced" -> "REPO_SYNCED"

\* A string of ordinary characters, written as one element.
Word(w) == PyStr(<<w>>)

\* A configuration with every required field a string and no optional field.
BaseConfig ==
    [finlab_api_token |-> Word("token"), fugle_account |-> Word("account"),
     fugle_password |-> Word("password"), fugle_cert |-> Word("Y2VydA=="),
     fugle_cert_password |-> Word("certpw"), fugle_api_entry |-> Word("entry"),
     fugle_api_key |-> Word("key"), fugle_api_secret |-> Word("secret"),
     fugle_market_api_key |-> Word("market"),
     gcf_service_account |-> PyNone, repo_synced |-> PyNone]

RepoSynced == PyDict(<<PyEntry(Word("repo"), Word("owner/repo"))>>)

ServiceAccount == PyDict(<<PyEntry(Word("type"), Word("service_account"))>>)

SyncedConfig == [BaseConfig EXCEPT !.repo_synced = RepoSynced]

\* The configurations a project is constructed with: with and without a target
\* repository, one whose repo_synced names no repository, and one loaded from an
\* environment that lacks a required variable (from_env stores None for it).
Configs ==
    {BaseConfig,
     SyncedConfig,
     [SyncedConfig EXCEPT !.gcf_service_account = ServiceAccount],
     [BaseConfig EXCEPT !.repo_synced = PyDict(<<>>), !.gcf_service_account = ServiceAccount],
     [SyncedConfig EXCEPT !.fugle_api_secret = PyNone]}

\* ------------------------------------------------------------ the runtime

\* What a call did. op: the method; err: "" or the exception it raised; the
\* other fields are the observations of the methods that make them.
NoCall ==
    [op |-> "", err |-> "", ret |-> None, session |-> None, path |-> None,
     steps |-> <<>>, calls |-> <<>>, parsed |-> FALSE, request |-> FALSE,
     directly |-> FALSE, params |-> None, input |-> None, sync |-> None,
     wrote |-> FALSE]

\* tempfile.gettempdir()
TempDir == "/tmp"

\* The data_dir arguments: None, or a directory.
DataDirs == {None, Some("data")}

\* data_dir if data_dir is not None else Path(tempfile.gettempdir())
DirOf(data_dir) == IF data_dir = None THEN TempDir ELSE data_dir[1]

\* dir / name
PathJoin(dir, name) == [dir |-> dir, name |-> name]

\* A setup that sets up and logs in the broker first.
SetupOrderBrokerFirst == <<"setup_fugle", "login_fugle", "setup_finlab", "login_finlab">>

\* The steps of setup, in the order setup calls them.
SetupOrder == <<"setup_finlab", "login_finlab", "setup_fugle", "login_fugle">>

\* A method runs when it is called on its own (pc = 0) or when setup has reached it.
AtStep(name) == pc = 0 \/ (pc > 0 /\ SetupOrder[pc] = name)

\* The data_dir a step works on: setup passes its own argument on.
StepDirs == IF pc = 0 THEN DataDirs ELSE {setup_dir}

\* After a step of setup: on to the next one, or out of setup when the step
\* raised (the exception propagates) or was the last one.
AfterStep(err) ==
    IF pc = 0 THEN 0
    ELSE IF err = "" /\ pc < Len(SetupOrder) THEN pc + 1
    ELSE 0

\* The record of a step: its own when called directly, else a line in setup's.
StepRecord(name, err, own) ==
    IF pc = 0 THEN own
    ELSE [last EXCEPT !.steps = Append(@, name), !.err = err]

\* setup(data_dir): enters setup; its four calls follow as the steps below.
Setup(data_dir) ==
    /\ pc = 0
    /\ pc' = 1
    /\ setup_dir' = data_dir
    /\ last' = [NoCall EXCEPT !.op = "setup"]
    /\ UNCHANGED <<config, _gcf_endpoint, _fugle_config_path, _fugle_account, logins,
                   finlab_storage, finlab_token, keyring_key, stdout, dotenv_file,
                   environ>>

\* setup_finlab(data_dir): mkdir may raise; else the storage is set and returned.
SetupFinlab(data_dir, ok) ==
    /\ AtStep("setup_finlab")
    /\ data_dir \in StepDirs
    /\ LET storage_path == PathJoin(DirOf(data_dir), "finlab_db")
           err == IF ok THEN "" ELSE "OSError"
       IN  /\ finlab_storage' = IF ok THEN Some(storage_path) ELSE finlab_storage
           /\ last' = StepRecord("setup_finlab", err,
                          [NoCall EXCEPT !.op = "setup_finlab", !.err = err,
                                         !.path = IF ok THEN Some(storage_path) ELSE None])
           /\ pc' = AfterStep(err)
    /\ UNCHANGED <<config, _gcf_endpoint, _fugle_config_path, _fugle_account, logins,
                   finlab_token, keyring_key, stdout, dotenv_file, environ, setup_dir>>

\* noprint(): sys.stdout is the null sink while the body runs and is set back
\* after it returns; when the body raises, the line after the yield does not run
\* and sys.stdout stays the null sink, which the with statement has closed.
noprint(old_stdout, ok) == IF ok THEN old_stdout ELSE "devnull"

\* login_finlab(): finlab.login under noprint; the login may raise.
LoginFinlab(ok) ==
    /\ AtStep("login_finlab")
    /\ LET err == IF ok THEN "" ELSE "LoginError"
       IN  /\ finlab_token' = IF ok THEN Some(config.finlab_api_token) ELSE finlab_token
           /\ stdout' = noprint(stdout, ok)
           /\ last' = StepRecord("login_finlab", err,
                          [NoCall EXCEPT !.op = "login_finlab", !.err = err])
           /\ pc' = AfterStep(err)
    /\ UNCHANGED <<config, _gcf_endpoint, _fugle_config_path, _fugle_account, logins,
                   finlab_storage, keyring_key, dotenv_file, environ, setup_dir>>

\* Where setup_fugle may raise: creating the directory, in the keyring (after
\* the keyring is installed), writing the certificate and the config file.
FugleFailures == {"", "mkdir", "set_password", "to_file"}

\* md5(raw_key.encode("utf-8")).hexdigest()
KeyringKey(account) == [md5 |-> account.s]

\* A setup_fugle that clears the path before it writes the files again.
FuglePathReset(old, err, config_path) == IF err = "" THEN Some(config_path) ELSE None

\* self._fugle_config_path = ...to_file(data_dir): assigned when to_file returns.
FuglePathAfter(old, err, config_path) == IF err = "" THEN Some(config_path) ELSE old

\* setup_fugle(data_dir): the keyring, then the config file, then the path.
SetupFugle(data_dir, fail) ==
    /\ AtStep("setup_fugle")
    /\ data_dir \in StepDirs
    /\ LET config_path == PathJoin(DirOf(data_dir), "fugle-config.ini")
           \* raw_key.encode raises on an account that is None
           noAccount == config.fugle_account.t # "str"
           err == CASE fail = "mkdir" -> "OSError"
                    [] fail # "mkdir" /\ noAccount -> "AttributeError"
                    [] fail = "set_password" -> "KeyringError"
                    [] fail = "to_file" -> "OSError"
                    [] OTHER -> ""
       IN  /\ keyring_key' = IF fail = "mkdir" \/ noAccount THEN keyring_key
                             ELSE Some(KeyringKey(config.fugle_account))
           /\ _fugle_config_path' = FuglePathAfter(_fugle_config_path, err, config_path)
           /\ last' = StepRecord("setup_fugle", err,
                          [NoCall EXCEPT !.op = "setup_fugle", !.err = err])
           /\ pc' = AfterStep(err)
    /\ UNCHANGED <<config, _gcf_endpoint, _fugle_account, logins, finlab_storage,
                   finlab_token, stdout, dotenv_file, environ, setup_dir>>

\* FugleAccount(config_path, market_api_key): the object the n-th login makes.
FugleAccount(n, config_path, market_api_key) ==
    [id |-> n, config_path |-> config_path, market_api_key |-> market_api_key]

\* A login_fugle that keeps the account of an earlier login.
StoredAccountFirst(fugle_account) ==
    IF _fugle_account = None THEN Some(fugle_account) ELSE _fugle_account

\* The value login_fugle stores in _fugle_account.
StoredAccount(fugle_account) == Some(fugle_account)

\* login_fugle(): needs the config path; the constructor logs in and may raise.
LoginFugle(ok) ==
    /\ AtStep("login_fugle")
    /\ ok => logins < MaxLogins
    /\ LET err == IF _fugle_config_path = None THEN "ValueError"
                  ELSE IF ok THEN "" ELSE "LoginError"
       IN  /\ _fugle_account' =
                  IF err = ""
                  THEN StoredAccount(FugleAccount(logins + 1, _fugle_config_path[1],
                                                  config.fugle_market_api_key))
                  ELSE _fugle_account
           /\ logins' = IF err = "" THEN logins + 1 ELSE logins
           /\ last' = StepRecord("login_fugle", err,
                          [NoCall EXCEPT !.op = "login_fugle", !.err = err])
           /\ pc' = AfterStep(err)
    /\ UNCHANGED <<config, _gcf_endpoint, _fugle_config_path, finlab_storage,
                   finlab_token, keyring_key, stdout, dotenv_file, environ, setup_dir>>

\* The test fugle_account makes before it returns the account.
NotLoggedIn(account) == account = None

\* fugle_account(): the stored account, or ValueError before a login.
FugleAccountGet ==
    /\ pc = 0
    /\ last' = IF NotLoggedIn(_fugle_account)
               THEN [NoCall EXCEPT !.op = "fugle_account", !.err = "ValueError"]
               ELSE [NoCall EXCEPT !.op = "fugle_account", !.session = _fugle_account]
    /\ UNCHANGED <<config, _gcf_endpoint, _fugle_config_path, _fugle_account, logins,
                   finlab_storage, finlab_token, keyring_key, stdout, dotenv_file,
                   environ, pc, setup_dir>>


\* ------------------------------------------------------------ the endpoint

\* The functions a project registers, by __name__.
Funcs == {"create_orders", "echo", "status", "total"}

\* What the registered function returns for its keyword arguments: a list of
\* records, the arguments themselves, a string, a number.
Apply(func, kwargs) ==
    CASE func = "create_orders" -> PyList(<<kwargs>>)
      [] func = "echo" -> kwargs
      [] func = "status" -> Word("ok")
      [] func = "total" -> PyInt(Len(kwargs.items))

\* What a call made: the exception raised ("" for none), the value returned and
\* the keyword arguments of every call of the registered function.
Outcome(err, ret, calls) == [err |-> err, ret |-> ret, calls |-> calls]

\* func(**payload): the payload must be a mapping with string keys.
CallKw(func, payload) ==
    IF payload.t = "dict" /\ \A i \in 1..Len(payload.items) : payload.items[i].items[1].t = "str"
    THEN Outcome("", Apply(func, payload), <<payload>>)
    ELSE Outcome("TypeError", PyNone, <<>>)

\* A flask Request with the given body.
Request(body) == [t |-> "request", s |-> body, items |-> <<>>]

\* A wrapper that does not unpack the body of a request.
WrapperCallNoUnpack(func, args, kwargs) == CallKw(func, kwargs)

\* wrapper(*args, **kwargs): a single Request argument is unpacked from its JSON
\* body; any other call is passed on.
WrapperCall(func, args, kwargs) ==
    LET from_request == Len(args) = 1 /\ args[1].t = "request"
    IN  IF from_request
        THEN LET payload == json_loads(args[1].s)
             IN  IF payload = None THEN Outcome("BadRequest", PyNone, <<>>)
                 ELSE CallKw(func, payload[1])
        ELSE CallKw(func, kwargs)

\* The wrapper gcf_endpoint makes of func: functools.wraps gives it func's name.
Wrapper(func) == [name |-> func, func |-> func]

\* A gcf_endpoint that does not test for an earlier registration.
AlreadyRegisteredNever(endpoint) == FALSE

\* The test gcf_endpoint makes before it wraps.
AlreadyRegistered(endpoint) == endpoint # None

\* gcf_endpoint(func): registers the wrapper of func, once.
GcfEndpoint(func) ==
    /\ pc = 0
    /\ IF AlreadyRegistered(_gcf_endpoint)
       THEN /\ last' = [NoCall EXCEPT !.op = "gcf_endpoint", !.err = "ValueError",
                                      !.input = Some(func)]
            /\ UNCHANGED _gcf_endpoint
       ELSE /\ _gcf_endpoint' = Some(Wrapper(func))
            /\ last' = [NoCall EXCEPT !.op = "gcf_endpoint", !.input = Some(func),
                                      !.ret = Some(Wrapper(func))]
    /\ UNCHANGED <<config, _fugle_config_path, _fugle_account, logins, finlab_storage,
                   finlab_token, keyring_key, stdout, dotenv_file, environ, pc,
                   setup_dir>>

\* The command line: whether --directly is given, and the text given to --params.
Cli(directly, params) == [directly |-> directly, params |-> params]

\* parser.parse_args(): --params is read with json.loads, and is None when absent.
ParseArgs(cli) ==
    [directly |-> cli.directly,
     params |-> IF cli.params = None THEN PyNone ELSE json_loads(cli.params[1])[1]]

\* a or b
Or(a, b) == IF Truthy(a) THEN a ELSE b

\* params = args.params or params
EffectiveParams(args, params) == Or(args.params, params)

\* directly = args.directly or directly
EffectiveDirectly(args, directly) == args.directly \/ directly

\* self._gcf_endpoint(**params)
DirectCall(wrapper, params) == WrapperCall(wrapper.func, <<>>, params)

\* The response made of what the view function did: a dict or a list is sent as
\* JSON, a string as text; any other value and any exception is a 500 response.
MakeResponse(out) ==
    IF out.err = "" /\ out.ret.t \in {"dict", "list"}
    THEN [status |-> 200, mimetype |-> "application/json", body |-> json_dumps(out.ret)]
    ELSE IF out.err = "" /\ out.ret.t = "str"
    THEN [status |-> 200, mimetype |-> "text/html", body |-> out.ret.s]
    ELSE [status |-> 500, mimetype |-> "text/html", body |-> <<>>]

\* response.get_json(): None unless the response is JSON.
ResponseGetJson(response) ==
    IF response.mimetype = "application/json" THEN json_loads(response.body)[1]
    ELSE PyNone

\* client.post("/", json=params), then response.get_json(): the target named
\* after the wrapper is called with the request.
SimulatedCall(wrapper, params) ==
    LET out == WrapperCall(wrapper.func, <<Request(json_dumps(params))>>, PyDict(<<>>))
    IN  Outcome("", ResponseGetJson(MakeResponse(out)), out.calls)

\* A call_gcf_endpoint that tests for the endpoint after parsing the command line.
CallNoEndpointAfterParse(input) ==
    [NoCall EXCEPT !.op = "call_gcf_endpoint", !.err = "ValueError", !.input = Some(input),
                   !.parsed = TRUE]

\* What call_gcf_endpoint does without an endpoint: it raises at once.
CallNoEndpoint(input) ==
    [NoCall EXCEPT !.op = "call_gcf_endpoint", !.err = "ValueError", !.input = Some(input)]

\* call_gcf_endpoint(directly, params) under the command line cli.
CallGcfEndpoint(directly, params, cli) ==
    /\ pc = 0
    /\ LET input == [directly |-> directly, params |-> params, cli |-> cli]
           args == ParseArgs(cli)
           d == EffectiveDirectly(args, directly)
           p == EffectiveParams(args, params)
           out == IF d THEN DirectCall(_gcf_endpoint[1], p)
                  ELSE SimulatedCall(_gcf_endpoint[1], p)
       IN  last' = IF _gcf_endpoint = None THEN CallNoEndpoint(input)
                   ELSE [NoCall EXCEPT !.op = "call_gcf_endpoint", !.input = Some(input),
                                       !.parsed = TRUE, !.directly = d, !.params = Some(p),
                                       !.request = ~d, !.err = out.err,
                                       !.ret = IF out.err = "" THEN Some(out.ret) ELSE None,
                                       !.calls = out.calls]
    /\ UNCHANGED <<config, _gcf_endpoint, _fugle_config_path, _fugle_account, logins,
                   finlab_storage, finlab_token, keyring_key, stdout, dotenv_file,
                   environ, pc, setup_dir>>


\* ----------------------------------------------------- the GitHub secrets

\* One line of the dotenv file: KEY='value'.
Binding(key, value) == [k |-> key, v |-> value]

\* dotenv.set_key(path, key, value): every line of the key is rewritten; a key
\* the file does not hold is appended.
DotenvSetKey(file, key, value) ==
    IF \E i \in 1..Len(file) : file[i].k = key
    THEN [i \in 1..Len(file) |-> IF file[i].k = key THEN Binding(key, value) ELSE file[i]]
    ELSE Append(file, Binding(key, value))

\* A setup_github_secrets that does not empty the file first.
KeptFile(file) == file

\* dotenv_path.write_text("")
EmptiedFile(file) == <<>>

\* The text written for field f: a JSON field as json.dumps gives it, any other
\* field as it is; <<>> for a value that is no string, on which set_key raises.
SecretValue(cfg, f) ==
    IF f \in JSON_FIELDS THEN Some(json_dumps(cfg[f]))
    ELSE IF cfg[f].t = "str" THEN Some(cfg[f].s)
    ELSE None

RECURSIVE WriteFields(_, _, _)
\* The loop over all_field_names, from field i on: the file it leaves, and the
\* exception that ended it.
WriteFields(cfg, file, i) ==
    IF i > Len(all_field_names) THEN [err |-> "", file |-> file]
    ELSE LET f == all_field_names[i]
             value == SecretValue(cfg, f)
         IN  IF value = None THEN [err |-> "AttributeError", file |-> file]
             ELSE WriteFields(cfg, DotenvSetKey(file, Upper(f), value[1]), i + 1)

\* A setup_github_secrets that does not test repo_synced.
SecretsPreconditionNoRepo(cfg, endpoint) == IF endpoint = None THEN "ValueError" ELSE ""

\* The two tests setup_github_secrets makes first.
SecretsPrecondition(cfg, endpoint) ==
    IF cfg.repo_synced.t = "none" THEN "ValueError"
    ELSE IF endpoint = None THEN "ValueError"
    ELSE ""

\* What is handed to github_secret_syncer.sync_secrets.
SyncCall(file, cfg) == [dotenv |-> file, kwargs |-> cfg.repo_synced, delete_missing |-> TRUE]

\* setup_github_secrets(): the tests, the file, then the synchronisation, which
\* may raise.
SetupGithubSecrets(ok) ==
    /\ pc = 0
    /\ LET pre == SecretsPrecondition(config, _gcf_endpoint)
           w == WriteFields(config, EmptiedFile(dotenv_file), 1)
           file == IF w.err # "" THEN w.file
                   ELSE DotenvSetKey(w.file, "GCF_FUNCTION_TARGET", <<_gcf_endpoint[1].name>>)
           \* config.repo_synced['repo'], in the log line before the call
           err == IF w.err # "" THEN w.err
                  ELSE IF config.repo_synced.t # "dict" THEN "TypeError"
                  ELSE IF ~HasKey(config.repo_synced, Word("repo")) THEN "KeyError"
                  ELSE IF ok THEN "" ELSE "SyncError"
       IN  IF pre # ""
           THEN /\ last' = [NoCall EXCEPT !.op = "setup_github_secrets", !.err = pre,
                                          !.input = Some(dotenv_file)]
                /\ UNCHANGED dotenv_file
           ELSE /\ dotenv_file' = file
                /\ last' = [NoCall EXCEPT !.op = "setup_github_secrets", !.err = err,
                                          !.wrote = TRUE, !.input = Some(dotenv_file),
                                          !.sync = IF err \in {"", "SyncError"}
                                                   THEN Some(SyncCall(file, config))
                                                   ELSE None]
    /\ UNCHANGED <<config, _gcf_endpoint, _fugle_config_path, _fugle_account, logins,
                   finlab_storage, finlab_token, keyring_key, stdout, environ, pc,
                   setup_dir>>

\* --------------------------------------------------------- the environment

FieldNames == {all_field_names[i] : i \in 1..Len(all_field_names)}

EnvNames == {Upper(f) : f \in FieldNames}

\* all_values.get(name, None)
EnvGet(env, name) == env[name]

\* A from_env that copies the text of a JSON field.
FromEnvFieldRaw(env, f) ==
    LET v == EnvGet(env, Upper(f))
    IN  Some(IF v = None THEN PyNone ELSE PyStr(v[1]))

\* The value from_env gives field f: a JSON field is json.loads(v or "null"),
\* any other field is v; <<>> where json.loads raises.
FromEnvField(env, f) ==
    LET v == EnvGet(env, Upper(f))
    IN  IF f \in JSON_FIELDS
        THEN json_loads(IF v = None \/ v[1] = <<>> THEN Txt("null") ELSE v[1])
        ELSE Some(IF v = None THEN PyNone ELSE PyStr(v[1]))

\* F5ProjectConfig.from_env(): <<the record>>, or <<>> where it raises.
from_env(env) ==
    IF \E f \in FieldNames : FromEnvField(env, f) = None THEN None
    ELSE Some([f \in FieldNames |-> FromEnvField(env, f)[1]])

\* Every field exported under its upper-cased name, with the text
\* setup_github_secrets writes for it.
ExportEnv ==
    /\ pc = 0
    /\ \A f \in FieldNames : SecretValue(config, f) # None
    /\ environ' = [n \in EnvNames |->
                     LET f == CHOOSE g \in FieldNames : Upper(g) = n
                     IN  SecretValue(config, f)]
    /\ last' = [NoCall EXCEPT !.op = "export"]
    /\ UNCHANGED <<config, _gcf_endpoint, _fugle_config_path, _fugle_account, logins,
                   finlab_storage, finlab_token, keyring_key, stdout, dotenv_file, pc,
                   setup_dir>>

\* The environment changes outside the program: a variable is unset, or set to
\* the empty string.
SetEnv(name, value) ==
    /\ pc = 0
    /\ environ' = [environ EXCEPT ![name] = value]
    /\ last' = [NoCall EXCEPT !.op = "environ"]
    /\ UNCHANGED <<config, _gcf_endpoint, _fugle_config_path, _fugle_account, logins,
                   finlab_storage, finlab_token, keyring_key, stdout, dotenv_file, pc,
                   setup_dir>>

\* A call of F5ProjectConfig.from_env() in the current environment.
FromEnv ==
    /\ pc = 0
    /\ last' = [NoCall EXCEPT !.op = "from_env", !.input = Some(environ),
                              !.ret = from_env(environ),
                              !.err = IF from_env(environ) = None THEN "JSONDecodeError"
                                      ELSE ""]
    /\ UNCHANGED <<config, _gcf_endpoint, _fugle_config_path, _fugle_account, logins,
                   finlab_storage, finlab_token, keyring_key, stdout, dotenv_file,
                   environ, pc, setup_dir>>


\* -------------------------------------------------------- specifications

\* A new F5Project(config), in a fresh process: nothing registered, nothing set
\* up, and <tmp>/temp.env holding what was left there.
InitWith(configs, files) ==
    /\ config \in configs
    /\ _gcf_endpoint = None
    /\ _fugle_config_path = None
    /\ _fugle_account = None
    /\ logins = 0
    /\ finlab_storage = None
    /\ finlab_token = None
    /\ keyring_key = None
    /\ stdout = "orig"
    /\ dotenv_file \in files
    /\ environ = [n \in EnvNames |-> None]
    /\ pc = 0
    /\ setup_dir = None
    /\ last = NoCall

\* The caller's params: the default, the template's, and one holding a tuple.
CallerParams ==
    {PyDict(<<>>),
     PyDict(<<PyEntry(Word("view_only"), PyBool(TRUE)), PyEntry(Word("fund"), PyInt(10000))>>),
     PyDict(<<PyEntry(Word("ids"), PyTuple(<<PyInt(1), PyInt(2)>>))>>)}

\* The texts given to --params: {}, {"fund": 1} and null.
CliParams ==
    {<<"{", "}">>,
     <<"{", "\"", "fund", "\"", ":", " ", "1", "}">>,
     <<"n", "u", "l", "l">>}

Clis == {Cli(d, p) : d \in BOOLEAN, p \in {None} \cup {Some(text) : text \in CliParams}}

\* What <tmp>/temp.env may hold before a synchronisation.
TempFiles ==
    {<<>>,
     <<Binding("STALE_KEY", <<"x">>)>>,
     <<Binding("GCF_FUNCTION_TARGET", <<"old_target">>), Binding("FUGLE_ACCOUNT", <<"old">>),
       Binding("REMOVED_FIELD", <<"v">>)>>}

Alphabet == {"a", "\"", "\\"}

\* The strings of at most n characters.
Strings(n) == UNION {[1..k -> Alphabet] : k \in 0..n}

\* The values of a JSON field: None, the empty mapping, every mapping of one
\* string to one string, and a mapping of two.
JsonMaps ==
    {PyNone, PyDict(<<>>),
     PyDict(<<PyEntry(PyStr(<<"a">>), PyStr(<<"\"">>)), PyEntry(PyStr(<<"\\">>), PyStr(<<>>))>>)}
    \cup {PyDict(<<PyEntry(PyStr(k), PyStr(v))>>) : k, v \in Strings(MaxStrLen)}

EnvConfigs ==
    {[BaseConfig EXCEPT !.gcf_service_account = g, !.repo_synced = r,
                        !.fugle_account = PyStr(a)] :
        g \in JsonMaps, r \in {PyNone, PyDict(<<>>), RepoSynced},
        a \in {<<>>, <<"a">>, <<"\"", "\\">>}}

\* The runtime: every method of F5Project, in any order.
Init == InitWith({BaseConfig, SyncedConfig}, {<<>>})

Next ==
    \/ \E data_dir \in DataDirs : Setup(data_dir)
    \/ \E data_dir \in DataDirs, ok \in BOOLEAN : SetupFinlab(data_dir, ok)
    \/ \E ok \in BOOLEAN : LoginFinlab(ok)
    \/ \E data_dir \in DataDirs, fail \in FugleFailures : SetupFugle(data_dir, fail)
    \/ \E ok \in BOOLEAN : LoginFugle(ok)
    \/ FugleAccountGet
    \/ \E func \in {"create_orders", "status"} : GcfEndpoint(func)
    \/ \E directly \in BOOLEAN, cli \in {Cli(FALSE, None), Cli(TRUE, None)} :
          CallGcfEndpoint(directly, PyDict(<<>>), cli)
    \/ \E ok \in BOOLEAN : SetupGithubSecrets(ok)

Spec == Init /\ [][Next]_vars

\* The endpoint: registration, and invocation with every caller argument and
\* command line.
InitCall == InitWith({BaseConfig}, {<<>>})

NextCall ==
    \/ \E func \in Funcs : GcfEndpoint(func)
    \/ \E directly \in BOOLEAN, params \in CallerParams, cli \in Clis :
          CallGcfEndpoint(directly, params, cli)

SpecCall == InitCall /\ [][NextCall]_vars

\* The synchronisation of secrets, for every configuration and temporary file.
InitSecrets == InitWith(Configs, TempFiles)

NextSecrets ==
    \/ \E func \in Funcs : GcfEndpoint(func)
    \/ \E ok \in BOOLEAN : SetupGithubSecrets(ok)

SpecSecrets == InitSecrets /\ [][NextSecrets]_vars

\* The environment: export of a configuration, changes from outside, from_env.
InitEnv == InitWith(EnvConfigs, {<<>>})

NextEnv ==
    \/ ExportEnv
    \/ \E name \in {Upper(f) : f \in JSON_FIELDS}, value \in {None, Some(<<>>)} :
          SetEnv(name, value)
    \/ FromEnv

SpecEnv == InitEnv /\ [][NextEnv]_vars


\* ------------------------------------------------------------- properties

\* C1: a call of gcf_endpoint on a project without an endpoint succeeds, stores
\* the wrapper of its function and returns it; a call on a project with an
\* endpoint raises ValueError and leaves the stored wrapper as it was; and no
\* step of any method replaces or clears a stored endpoint.
C1_SingleRegistration ==
    [][/\ last'.op = "gcf_endpoint" =>
              IF _gcf_endpoint = None
              THEN /\ last'.err = ""
                   /\ _gcf_endpoint' = Some([name |-> last'.input[1], func |-> last'.input[1]])
                   /\ last'.ret = _gcf_endpoint'
              ELSE /\ last'.err = "ValueError"
                   /\ _gcf_endpoint' = _gcf_endpoint
       /\ _gcf_endpoint # None => _gcf_endpoint' = _gcf_endpoint]_vars

\* A second registration, of another function, has failed and the first is kept.
C1_Witness ==
    /\ last.op = "gcf_endpoint"
    /\ last.err = "ValueError"
    /\ _gcf_endpoint # None
    /\ _gcf_endpoint[1].func # last.input[1]

\* C2: fugle_account() raises ValueError as long as no broker login has
\* succeeded; after one has, it returns the account the most recent successful
\* login stored, which is never None.
C2_SessionGetter ==
    last.op = "fugle_account" =>
        /\ logins = 0 => last.err = "ValueError" /\ last.session = None
        /\ logins > 0 => /\ last.err = ""
                         /\ last.session # None
                         /\ last.session[1].id = logins
                         /\ last.session = _fugle_account

\* The account of the second login has been returned.
C2_Witness ==
    /\ last.op = "fugle_account"
    /\ last.err = ""
    /\ logins = 2
    /\ last.session[1].id = 2

\* C3: in every step of every method, failing or not, a config path that is set
\* stays set, an account that is set stays set, and an account is never set
\* while the config path is not.
C3_OneDirection ==
    [][/\ _fugle_config_path # None => _fugle_config_path' # None
       /\ _fugle_account # None => _fugle_account' # None
       /\ _fugle_account' # None => _fugle_config_path' # None]_vars

\* A broker step has failed on a project that was logged in, and it still is.
C3_Witness ==
    /\ last.op \in {"setup_fugle", "login_fugle"}
    /\ last.err # ""
    /\ _fugle_account # None
    /\ _fugle_config_path # None

\* C4: the steps a call of setup has made are a prefix of setup_finlab,
\* login_finlab, setup_fugle, login_fugle, each made once; the call goes on only
\* after a step that did not raise, so the broker steps follow a successful
\* analytics login; when a step raises, setup ends with that exception and makes
\* no further step; it ends without one only after all four.
C4_SetupOrder ==
    last.op = "setup" =>
        LET n == Len(last.steps)
            order == <<"setup_finlab", "login_finlab", "setup_fugle", "login_fugle">>
        IN  /\ n <= 4
            /\ last.steps = SubSeq(order, 1, n)
            /\ pc # 0 => pc = n + 1 /\ last.err = ""
            /\ pc = 0 => n >= 1 /\ (last.err = "" => n = 4)
            /\ n >= 3 => finlab_storage # None /\ finlab_token # None
            /\ (n = 4 /\ last.err = "") => _fugle_account # None

\* setup has ended in its third step: the broker setup raised after the
\* analytics login, and the broker login was not tried.
C4_Witness ==
    /\ last.op = "setup"
    /\ pc = 0
    /\ last.err # ""
    /\ last.steps = <<"setup_finlab", "login_finlab", "setup_fugle">>

\* C5: a call of setup_github_secrets with repo_synced None or without an
\* endpoint raises ValueError, leaves the temporary file as it was and does not
\* call the synchronisation service; the service is called only with repo_synced
\* set and an endpoint registered.
C5_SyncPrecondition ==
    [][last'.op = "setup_github_secrets" =>
          /\ (config.repo_synced = PyNone \/ _gcf_endpoint = None) =>
                 /\ last'.err = "ValueError"
                 /\ ~last'.wrote
                 /\ dotenv_file' = dotenv_file
                 /\ last'.sync = None
          /\ last'.sync # None => config.repo_synced # PyNone /\ _gcf_endpoint # None]_vars

\* The call has failed for the missing endpoint, with repo_synced set and a
\* temporary file that holds lines.
C5_Witness ==
    /\ last.op = "setup_github_secrets"
    /\ last.err = "ValueError"
    /\ config.repo_synced # PyNone
    /\ dotenv_file # <<>>

\* C6: after a successful setup_github_secrets the file handed to the service
\* holds one line per configuration field, under its upper-cased name, and one
\* for GCF_FUNCTION_TARGET, and no other; a JSON field's value is its JSON text,
\* any other field's value is the field, the target is the endpoint's name, and
\* the service is asked to delete what is missing.
C6_SyncedMapping ==
    (last.op = "setup_github_secrets" /\ last.err = "") =>
        /\ last.sync # None
        /\ LET s == last.sync[1]
               file == s.dotenv
           IN  /\ file = dotenv_file
               /\ {file[i].k : i \in 1..Len(file)}
                      = {Upper(f) : f \in FieldNames} \cup {"GCF_FUNCTION_TARGET"}
               /\ Len(file) = Len(all_field_names) + 1
               /\ \A i \in 1..Len(file) : \A f \in FieldNames :
                      file[i].k = Upper(f) =>
                          file[i].v = IF f \in JSON_FIELDS THEN json_dumps(config[f])
                                      ELSE config[f].s
               /\ \A i \in 1..Len(file) :
                      file[i].k = "GCF_FUNCTION_TARGET" => file[i].v = <<_gcf_endpoint[1].name>>
               /\ s.kwargs = config.repo_synced
               /\ s.delete_missing

\* A synchronisation has succeeded over a temporary file that held other keys.
C6_Witness ==
    /\ last.op = "setup_github_secrets"
    /\ last.err = ""
    /\ \E i \in 1..Len(last.input[1]) : last.input[1][i].k = "REMOVED_FIELD"
    /\ config.gcf_service_account # PyNone

\* C7: in every call of call_gcf_endpoint that reaches the command line, a given
\* --params is the params used, whatever JSON value it holds, and not the
\* caller's; a given --directly makes the call direct; the caller's argument is
\* used for a flag that is not given.
C7_CliPrecedence ==
    (last.op = "call_gcf_endpoint" /\ last.parsed) =>
        LET input == last.input[1]
        IN  /\ input.cli.params # None => last.params = json_loads(input.cli.params[1])
            /\ input.cli.params = None => last.params = Some(input.params)
            /\ input.cli.directly => last.directly
            /\ ~input.cli.directly => last.directly = input.directly

RECURSIVE JsonValue(_)
\* v is None, a bool, an int, a str, a list of such or a dict of such with
\* string keys: the values JSON holds as they are.
JsonValue(v) ==
    CASE v.t \in {"none", "bool", "int", "str"} -> TRUE
      [] v.t = "list" -> \A i \in 1..Len(v.items) : JsonValue(v.items[i])
      [] v.t = "dict" -> \A i \in 1..Len(v.items) :
                             v.items[i].items[1].t = "str" /\ JsonValue(v.items[i].items[2])
      [] OTHER -> FALSE

\* C8, as stated: with an endpoint registered, either mode calls the function
\* once with exactly params as keyword arguments and returns what it returned.
C8_ModesAgree ==
    (last.op = "call_gcf_endpoint" /\ last.parsed) =>
        LET p == last.params[1]
        IN  /\ last.err = ""
            /\ last.calls = <<p>>
            /\ last.ret = Some(Apply(_gcf_endpoint[1].func, p))

\* C8, amended: for params whose values are JSON values, either mode calls the
\* function once with exactly params as keyword arguments; direct mode returns
\* what it returned, and so does the simulated request when that is a dict or a
\* list of JSON values.
C8_ModesAgreeOnJson ==
    (last.op = "call_gcf_endpoint" /\ last.parsed /\ JsonValue(last.params[1])) =>
        LET p == last.params[1]
            result == Apply(_gcf_endpoint[1].func, p)
        IN  /\ last.err = ""
            /\ last.calls = <<p>>
            /\ last.directly => last.ret = Some(result)
            /\ (result.t \in {"dict", "list"} /\ JsonValue(result)) => last.ret = Some(result)

\* A simulated request with the template's params has returned the list of
\* records the function made of them.
C8_Witness ==
    /\ last.op = "call_gcf_endpoint"
    /\ ~last.directly
    /\ last.request
    /\ _gcf_endpoint = Some([name |-> "create_orders", func |-> "create_orders"])
    /\ Len(last.params[1].items) = 2
    /\ last.calls = <<last.params[1]>>
    /\ last.ret = Some(PyList(<<last.params[1]>>))

\* C9: a call of call_gcf_endpoint without an endpoint raises ValueError before
\* the command line is parsed, calls no function, makes no request and changes
\* nothing of the project.
C9_NoEndpointCall ==
    [][(last'.op = "call_gcf_endpoint" /\ _gcf_endpoint = None) =>
          /\ last'.err = "ValueError"
          /\ ~last'.parsed
          /\ last'.calls = <<>>
          /\ ~last'.request
          /\ last'.ret = None
          /\ UNCHANGED <<config, _gcf_endpoint, _fugle_config_path, _fugle_account,
                         logins, finlab_storage, finlab_token, keyring_key, stdout,
                         dotenv_file, environ, pc, setup_dir>>]_vars

\* A direct call has failed on a project that is set up and has no endpoint.
C9_Witness ==
    /\ last.op = "call_gcf_endpoint"
    /\ last.err = "ValueError"
    /\ _gcf_endpoint = None
    /\ last.input[1].directly
    /\ _fugle_account # None

\* C10: from_env in an environment that holds every field of the configuration
\* under its upper-cased name, a JSON field as its JSON text and any other as it
\* is, returns a record equal to the configuration on every field that is not
\* binary; and it gives None to a JSON field whose variable is unset or empty.
C10_EnvRoundTrip ==
    last.op = "from_env" =>
        LET env == last.input[1]
            exported == \A f \in FieldNames :
                            env[Upper(f)] = Some(IF f \in JSON_FIELDS THEN json_dumps(config[f])
                                                 ELSE config[f].s)
        IN  /\ last.err = ""
            /\ exported => \A f \in FieldNames \ BINARY_FILE_FIELDS :
                               last.ret[1][f] = config[f]
            /\ \A f \in JSON_FIELDS :
                   env[Upper(f)] \in {None, Some(<<>>)} => last.ret[1][f] = PyNone

\* A record has come back equal through the environment, with a mapping whose
\* key is a quote and whose value is a backslash.
C10_Witness ==
    /\ last.op = "from_env"
    /\ config.gcf_service_account = PyDict(<<PyEntry(PyStr(<<"\"">>), PyStr(<<"\\">>))>>)
    /\ last.input[1]["GCF_SERVICE_ACCOUNT"] = Some(json_dumps(config.gcf_service_account))
    /\ last.input[1]["REPO_SYNCED"] = Some(json_dumps(config.repo_synced))
    /\ config.repo_synced = PyDict(<<>>)
    /\ last.ret[1].gcf_service_account = config.gcf_service_account
    /\ last.ret[1].repo_synced = PyDict(<<>>)


\* C11: every call of login_finlab, on its own or as a step of setup, whether
\* finlab.login returns or raises, leaves sys.stdout the stream it was before
\* the call, and never the closed null sink.
C11_StdoutRestored ==
    [][(last'.op = "login_finlab" \/ (pc > 0 /\ SetupOrder[pc] = "login_finlab")) =>
          stdout' = stdout /\ stdout' # "devnull"]_vars

====
